---------------------------- MODULE Spec2Model ----------------------------
(***************************************************************************)
(* Model of the CrimsonBites front end:                                    *)
(*   - App.jsx: the session/routing shell (tracked items, plate save,      *)
(*     nutrition-history version, PrivateRoute and the route table);       *)
(*   - MacroChart.jsx: getISOWeekDates, the weekly tick label, the         *)
(*     per-bucket kcal conversion and the tooltip total.                   *)
(*                                                                         *)
(* Four specifications share the variables; each one moves its own part    *)
(* of the state and leaves the rest at its initial value:                  *)
(*   Spec       the shell's tracker and plate saves                        *)
(*   SpecRoute  the route table and PrivateRoute                           *)
(*   SpecWeek   CustomXAxisTick / getISOWeekDates on weekly labels         *)
(*   SpecChart  MacroChart's convertedData and CustomTooltip               *)
(***************************************************************************)
EXTENDS Integers, Sequences, FiniteSets

VARIABLES
    \* ---- App.jsx, shell state ----
    trackedItems,              \* React state, App.jsx:46
    date,                      \* React state, App.jsx:47
    nutritionHistoryCache,     \* React state, App.jsx:61
    nutritionHistoryVersion,   \* React state, App.jsx:62
    calls,                     \* every handleSavePlate invocation, in order
    console,                   \* console.error output, in order
    fetchCount,                \* number of fetch('/api/plate') requests issued
    uuidCount,                 \* number of crypto.randomUUID() values drawn
    \* ---- App.jsx, routing ----
    user,                      \* useAuth().user
    loading,                   \* useAuth().loading
    path,                      \* the router's current location
    hops,                      \* <Navigate> redirects since the last outside event
    loaded,                    \* the lazy route components whose import() has resolved
    \* ---- MacroChart.jsx, weekly tick ----
    label,                     \* payload.value given to CustomXAxisTick
    tick,                      \* what the tick rendered
    \* ---- MacroChart.jsx, chart ----
    chartProps,                \* MacroChart's props {data, loading}
    tooltip,                   \* what CustomTooltip rendered
    \* ---- App.jsx, the request of a save ----
    request                    \* the body handleSavePlate hands to fetch

shellVars == <<trackedItems, date, nutritionHistoryCache, nutritionHistoryVersion,
               calls, console, fetchCount, uuidCount>>
routeVars == <<user, loading, path, hops, loaded>>
weekVars  == <<label, tick>>
chartVars == <<chartProps, tooltip>>
vars == <<shellVars, routeVars, weekVars, chartVars, request>>

\* The decimal digits, as one-character strings.
DigitChars == <<"0", "1", "2", "3", "4", "5", "6", "7", "8", "9">>
Digits == {DigitChars[i] : i \in 1 .. 10}
DigitVal(c) == (CHOOSE i \in 1 .. 10 : DigitChars[i] = c) - 1

Min(a, b) == IF a <= b THEN a ELSE b
Max(a, b) == IF a >= b THEN a ELSE b

(***************************************************************************)
(* JavaScript Date, restricted to the calendar day (a Date built by        *)
(* new Date(y, m, d) is local midnight; getDay/getDate/setDate work in     *)
(* local time, so the day number is all that the code observes).           *)
(* A day number counts days from 1970-01-01, which was a Thursday.         *)
(***************************************************************************)
IsLeapYear(y) == (y % 4 = 0) /\ ((y % 100 # 0) \/ (y % 400 = 0))

DayFromYear(y) ==
    365 * (y - 1970) + ((y - 1969) \div 4) - ((y - 1901) \div 100) + ((y - 1601) \div 400)

DaysInMonth(y, m) ==
    CASE m = 1 -> IF IsLeapYear(y) THEN 29 ELSE 28
      [] m \in {3, 5, 8, 10} -> 30
      [] OTHER -> 31

RECURSIVE DaysBeforeMonth(_, _)
DaysBeforeMonth(y, m) ==
    IF m = 0 THEN 0 ELSE DaysBeforeMonth(y, m - 1) + DaysInMonth(y, m - 1)

\* MakeDay(year, month, date) of ECMAScript: month is 0-based and may
\* overflow, date may be any integer (0 and negatives reach back).
MakeDay(y, m, dt) ==
    LET ym == y + (m \div 12)
        mn == m % 12
    IN DayFromYear(ym) + DaysBeforeMonth(ym, mn) + dt - 1

YearFromDay(n) ==
    LET a == 1970 + (n \div 366)
        b == 1970 + (n \div 365)
    IN CHOOSE y \in (Min(a, b) - 1) .. (Max(a, b) + 1) :
           DayFromYear(y) <= n /\ n < DayFromYear(y + 1)

MonthFromDay(n) ==
    LET y == YearFromDay(n)
        doy == n - DayFromYear(y)
    IN CHOOSE m \in 0 .. 11 :
           DaysBeforeMonth(y, m) <= doy /\ doy < DaysBeforeMonth(y, m) + DaysInMonth(y, m)

\* new Date(year, monthIndex, day): a year 0..99 means 1900 + year.
NewDate(year, monthIndex, day) ==
    MakeDay(IF year >= 0 /\ year <= 99 THEN 1900 + year ELSE year, monthIndex, day)

\* Date.prototype.getDay: 0 = Sunday .. 6 = Saturday.
getDay(n) == (n + 4) % 7

\* Date.prototype.getDate: the day of the month, 1..31.
getDate(n) ==
    LET y == YearFromDay(n)
    IN n - DayFromYear(y) - DaysBeforeMonth(y, MonthFromDay(n)) + 1

\* Date.prototype.setDate(d) on the date n: same year and month, day d.
setDate(n, d) == MakeDay(YearFromDay(n), MonthFromDay(n), d)


(***************************************************************************)
(* App.jsx: the shell's tracked items and the plate save.                  *)
(* A JavaScript string is a sequence of one-character strings; an          *)
(* identifier is a string, a number or undefined.                          *)
(***************************************************************************)
Str(chars) == [type |-> "string", s |-> chars, n |-> 0]
Number(k) == [type |-> "number", s |-> <<>>, n |-> k]
Undefined == [type |-> "undefined", s |-> <<>>, n |-> 0]

\* Truthiness of an identifier: undefined, "" and 0 are falsy.
Truthy(v) ==
    CASE v.type = "string" -> Len(v.s) > 0
      [] v.type = "number" -> v.n # 0
      [] OTHER -> FALSE

\* The decimal digits of a natural number, as String(n) writes them.
RECURSIVE DecimalDigits(_)
DecimalDigits(k) ==
    IF k < 10 THEN <<DigitChars[k + 1]>>
    ELSE DecimalDigits(k \div 10) \o <<DigitChars[(k % 10) + 1]>>

\* String(v)
String(v) ==
    CASE v.type = "string" -> v.s
      [] v.type = "number" -> DecimalDigits(v.n)
      [] OTHER -> <<"u", "n", "d", "e", "f", "i", "n", "e", "d">>

CustomPrefix == <<"c", "u", "s", "t", "o", "m", "-">>

\* s.includes(prefix): the prefix found anywhere in s.
Includes(s, prefix) ==
    \E k \in 1 .. (Len(s) - Len(prefix) + 1) : SubSeq(s, k, k + Len(prefix) - 1) = prefix

\* s.startsWith(prefix)
StartsWith(s, prefix) ==
    /\ Len(s) >= Len(prefix)
    /\ \A k \in 1 .. Len(prefix) : s[k] = prefix[k]

\* The foods the dashboard offers: {id, _id, name}.
Catalog ==
    { [id |-> Str(<<"c", "u", "s", "t", "o", "m", "-", "1">>), _id |-> Undefined, name |-> "oats"],
      [id |-> Number(45), _id |-> Undefined, name |-> "rice"],
      [id |-> Undefined, _id |-> Str(<<"c", "u", "s", "t", "o", "m", "-", "2">>), name |-> "soup"],
      [id |-> Str(<<"x", "-", "c", "u", "s", "t", "o", "m", "-", "3">>), _id |-> Undefined, name |-> "tofu"] }

Quantities == {0, 2}

\* new Date(...) values the date picker can hold: [y, m, d], m 0-based.
Dates == {[y |-> 2026, m |-> 0, d |-> 5], [y |-> 2025, m |-> 10, d |-> 30]}

\* String(k).padStart(2, '0')
PadStart2(k) == IF k < 10 THEN <<"0">> \o DecimalDigits(k) ELSE DecimalDigits(k)

getLocalDateString(dt) ==
    DecimalDigits(dt.y) \o <<"-">> \o PadStart2(dt.m + 1) \o <<"-">> \o PadStart2(dt.d)

\* isCustom of handleSavePlate, with includes() in place of startsWith().
IsCustomIncludes(foodId) == Includes(String(foodId), CustomPrefix)

IsCustom(foodId) == StartsWith(String(foodId), CustomPrefix)

\* The callback of trackedItems.map in handleSavePlate.
PlateItem(item) ==
    LET foodId == IF Truthy(item.id) THEN item.id ELSE item._id
        base == [food_id |-> foodId,
                 quantity |-> IF item.quantity # 0 THEN item.quantity ELSE 1]
    IN IF IsCustom(foodId)
       THEN [food_id |-> base.food_id, quantity |-> base.quantity,
             has_custom_macros |-> TRUE, custom_macros |-> [name |-> item.name]]
       ELSE [food_id |-> base.food_id, quantity |-> base.quantity,
             has_custom_macros |-> FALSE, custom_macros |-> [name |-> ""]]

\* The body handed to fetch('/api/plate').
PlateBody(items, dt) ==
    [date |-> getLocalDateString(dt),
     items |-> [i \in 1 .. Len(items) |-> PlateItem(items[i])]]

MaxAdds == 2
MaxSaves == 2

NewCall(v) == [response |-> "pending", promise |-> "pending", logged |-> FALSE, closure |-> v]

ShellInit ==
    /\ trackedItems = <<>>
    /\ date \in Dates
    /\ nutritionHistoryCache = "null"
    /\ nutritionHistoryVersion = 0
    /\ calls = <<>>
    /\ console = <<>>
    /\ fetchCount = 0
    /\ uuidCount = 0

addToTracker(item, quantity) ==
    /\ uuidCount < MaxAdds
    /\ uuidCount' = uuidCount + 1
    /\ trackedItems' = Append(trackedItems,
           [id |-> item.id, _id |-> item._id, name |-> item.name,
            quantity |-> quantity, uniqueId |-> uuidCount + 1])
    /\ UNCHANGED <<date, nutritionHistoryCache, nutritionHistoryVersion, calls, console, fetchCount>>

removeFromTracker(itemId) ==
    /\ trackedItems' = SelectSeq(trackedItems, LAMBDA item : item.uniqueId # itemId)
    /\ UNCHANGED <<date, nutritionHistoryCache, nutritionHistoryVersion, calls, console,
                   fetchCount, uuidCount>>

clearTracker ==
    /\ trackedItems' = <<>>
    /\ UNCHANGED <<date, nutritionHistoryCache, nutritionHistoryVersion, calls, console,
                   fetchCount, uuidCount>>

\* setDate, handed to the dashboard's date picker.
ChangeDate(dt) ==
    /\ date' = dt
    /\ UNCHANGED <<trackedItems, nutritionHistoryCache, nutritionHistoryVersion, calls, console,
                   fetchCount, uuidCount>>

\* setNutritionHistoryCache, handed to the history page.
setCache(blob) ==
    /\ nutritionHistoryCache' = blob
    /\ UNCHANGED <<trackedItems, date, nutritionHistoryVersion, calls, console,
                   fetchCount, uuidCount>>

\* handleSavePlate up to its await: the request is issued and the call stays
\* pending, holding the version of the render that created it.  Nothing stops
\* a second call while one is pending.  The body of the request is write-only
\* (no later step reads it); handleSavePlateRequest keeps it.
handleSavePlate ==
    /\ Len(calls) < MaxSaves
    /\ calls' = Append(calls, NewCall(nutritionHistoryVersion))
    /\ fetchCount' = fetchCount + 1
    /\ UNCHANGED <<trackedItems, date, nutritionHistoryCache, nutritionHistoryVersion, console,
                   uuidCount>>

\* ---- the payload of a save, on tracked lists of every shape ----
MaxItems == 2

\* The tracked lists addToTracker can have built: items of the catalog, each
\* with its quantity, their uniqueIds distinct.
TrackedLists ==
    UNION { { [i \in 1 .. n |-> [id |-> f[i].id, _id |-> f[i]._id, name |-> f[i].name,
                                  quantity |-> q[i], uniqueId |-> i]] :
                f \in [1 .. n -> Catalog], q \in [1 .. n -> Quantities] } : n \in 0 .. MaxItems }

NoRequest == [sent |-> FALSE, date |-> <<>>, items |-> <<>>]

PayloadIdle == request = NoRequest

PayloadInit ==
    /\ trackedItems \in TrackedLists
    /\ date \in Dates
    /\ nutritionHistoryCache = "null"
    /\ nutritionHistoryVersion = 0
    /\ calls = <<>>
    /\ console = <<>>
    /\ fetchCount = 0
    /\ uuidCount = Len(trackedItems)
    /\ request = NoRequest

\* handleSavePlate up to its await, with the body it hands to fetch kept.
handleSavePlateRequest ==
    /\ handleSavePlate
    /\ request' = [sent |-> TRUE,
                   date |-> PlateBody(trackedItems, date).date,
                   items |-> PlateBody(trackedItems, date).items]

\* The response of call i arrives with res.ok, but the updater writes the
\* version its closure saw plus one (setNutritionHistoryVersion(version + 1)).
ResolveOkStale(i) ==
    /\ i \in DOMAIN calls
    /\ calls[i].response = "pending"
    /\ nutritionHistoryVersion' = calls[i].closure + 1
    /\ calls' = [calls EXCEPT ![i].response = "ok", ![i].promise = "fulfilled"]
    /\ UNCHANGED <<trackedItems, date, nutritionHistoryCache, console, fetchCount, uuidCount>>

\* The response arrives with res.ok, and the save also empties the tracker.
ResolveOkClearing(i) ==
    /\ i \in DOMAIN calls
    /\ calls[i].response = "pending"
    /\ nutritionHistoryVersion' = nutritionHistoryVersion + 1
    /\ calls' = [calls EXCEPT ![i].response = "ok", ![i].promise = "fulfilled"]
    /\ trackedItems' = <<>>
    /\ UNCHANGED <<date, nutritionHistoryCache, console, fetchCount, uuidCount>>

\* The response of call i arrives with res.ok: setNutritionHistoryVersion(v => v + 1).
ResolveOk(i) ==
    /\ i \in DOMAIN calls
    /\ calls[i].response = "pending"
    /\ nutritionHistoryVersion' = nutritionHistoryVersion + 1
    /\ calls' = [calls EXCEPT ![i].response = "ok", ![i].promise = "fulfilled"]
    /\ UNCHANGED <<trackedItems, date, nutritionHistoryCache, console, fetchCount, uuidCount>>

\* The response of call i arrives with a status that is not OK.
ResolveNotOk(i) ==
    /\ i \in DOMAIN calls
    /\ calls[i].response = "pending"
    /\ console' = Append(console, "Failed to save plate")
    /\ calls' = [calls EXCEPT ![i].response = "notok", ![i].promise = "fulfilled",
                              ![i].logged = TRUE]
    /\ UNCHANGED <<trackedItems, date, nutritionHistoryCache, nutritionHistoryVersion,
                   fetchCount, uuidCount>>

\* The request of call i fails: fetch rejects, the await throws, and with no
\* try/catch around it the promise handleSavePlate returned rejects.
RejectFetch(i) ==
    /\ i \in DOMAIN calls
    /\ calls[i].response = "pending"
    /\ calls' = [calls EXCEPT ![i].response = "neterror", ![i].promise = "rejected"]
    /\ UNCHANGED <<trackedItems, date, nutritionHistoryCache, nutritionHistoryVersion, console,
                   fetchCount, uuidCount>>

(***************************************************************************)
(* App.jsx: PrivateRoute and the route table.                              *)
(* useAuth() gives user (none, a guest, or a full account) and loading.    *)
(***************************************************************************)
Users == {"none", "guest", "full"}

GuardedPaths == {"/profile", "/account", "/history"}

\* The locations a visitor can ask for; "/menu" and "/ai-meal-planner" have no
\* route of their own and fall to the catch-all.
Paths ==
    {"/login", "/register", "/forgot-password", "/reset-password", "/auth/callback",
     "/privacy", "/", "/dashboard", "/menu", "/ai-meal-planner"} \cup GuardedPaths

Page(name) == [kind |-> "page", to |-> name]
Redirect(target) == [kind |-> "redirect", to |-> target]
Placeholder == [kind |-> "placeholder", to |-> "Loading..."]

\* PrivateRoute that only asks for a user, guest or not.
PrivateRouteAnyUser(u, l, children) ==
    IF l THEN Placeholder
    ELSE IF u = "none" THEN Redirect("/login")
    ELSE children

PrivateRoute(u, l, children) ==
    IF l THEN Placeholder
    ELSE IF u = "none" \/ u = "guest" THEN Redirect("/login")
    ELSE children

\* The element of the four sign-in routes, sending a signed-in visitor to a
\* guarded page instead of the dashboard.
AuthPageToProfile(u, page) == IF u # "none" THEN Redirect("/profile") ELSE Page(page)

\* The element of /login, /register, /forgot-password and /reset-password:
\* user ? <Navigate to="/dashboard" /> : <Page />
AuthPage(u, page) == IF u # "none" THEN Redirect("/dashboard") ELSE Page(page)

\* The element the route table renders at location p.
RouteElement(p, u, l) ==
    CASE p = "/login" -> AuthPage(u, "Login")
      [] p = "/register" -> AuthPage(u, "Register")
      [] p = "/forgot-password" -> AuthPage(u, "ForgotPassword")
      [] p = "/reset-password" -> AuthPage(u, "ResetPassword")
      [] p = "/auth/callback" -> Page("AuthCallback")
      [] p = "/privacy" -> Page("PrivacyPolicy")
      [] p = "/" -> Redirect(IF u # "none" THEN "/dashboard" ELSE "/login")
      [] p = "/dashboard" -> Page("Dashboard")
      [] p = "/profile" -> PrivateRoute(u, l, Page("ProfileSettings"))
      [] p = "/account" -> PrivateRoute(u, l, Page("UserAccount"))
      [] p = "/history" -> PrivateRoute(u, l, Page("NutritionHistory"))
      [] OTHER -> Redirect("/")

ProtectedPages == {"ProfileSettings", "UserAccount", "NutritionHistory"}

MaxHops == 4

\* What the visitor sees: a lazy page shows the <Suspense> fallback until its
\* import() has resolved.
Screen ==
    LET e == RouteElement(path, user, loading)
    IN IF e.kind = "page" /\ e.to \in ProtectedPages /\ e.to \notin loaded
       THEN [kind |-> "fallback", to |-> e.to]
       ELSE e

RouteIdle == user = "none" /\ loading = TRUE /\ path = "/" /\ hops = 0 /\ loaded = {}

RouteInit ==
    /\ user \in Users
    /\ loading \in BOOLEAN
    /\ path \in Paths
    /\ hops = 0
    /\ loaded = {}

\* The visitor opens a location (a link, the address bar, back/forward).
Visit(p) ==
    /\ path' = p
    /\ hops' = 0
    /\ UNCHANGED <<user, loading, loaded>>

\* The auth provider reports another state (signed in, signed out, settled).
AuthChange(u, l) ==
    /\ <<u, l>> # <<user, loading>>
    /\ user' = u
    /\ loading' = l
    /\ hops' = 0
    /\ UNCHANGED <<path, loaded>>

\* The rendered element is a <Navigate>: the router moves to its target.
FollowRedirect ==
    /\ RouteElement(path, user, loading).kind = "redirect"
    /\ hops < MaxHops
    /\ path' = RouteElement(path, user, loading).to
    /\ hops' = hops + 1
    /\ UNCHANGED <<user, loading, loaded>>

\* The import() of the lazy page on screen resolves.
LazyLoaded ==
    /\ Screen.kind = "fallback"
    /\ loaded' = loaded \cup {Screen.to}
    /\ UNCHANGED <<user, loading, path, hops>>

(***************************************************************************)
(* MacroChart.jsx: getISOWeekDates and the weekly x-axis tick.             *)
(* A label is a sequence of one-character strings.                         *)
(***************************************************************************)
\* parseInt(s, 10) on a sequence of decimal digits.
RECURSIVE ParseInt(_)
ParseInt(s) ==
    IF Len(s) = 0 THEN 0
    ELSE 10 * ParseInt(SubSeq(s, 1, Len(s) - 1)) + DigitVal(s[Len(s)])

\* /^\d{4}-W\d{1,2}$/.test(label)
WeekMatch(l) ==
    /\ Len(l) \in {7, 8}
    /\ \A i \in 1 .. 4 : l[i] \in Digits
    /\ l[5] = "-"
    /\ l[6] = "W"
    /\ \A i \in 7 .. Len(l) : l[i] \in Digits

\* label.split('-W') on a label the pattern accepts: [year, weekStr].
SplitW(l) == <<SubSeq(l, 1, 4), SubSeq(l, 7, Len(l))>>

\* The branch with its boundary one weekday early: Thursday anchors step on
\* to the next Monday.
WeekStartDateLate(simple) ==
    IF getDay(simple) <= 3
    THEN getDate(simple) - getDay(simple) + 1
    ELSE getDate(simple) + 8 - getDay(simple)

\* The branch with the "+ 1" dropped: the step back ends on the Sunday.
WeekStartDateSunday(simple) ==
    IF getDay(simple) <= 4
    THEN getDate(simple) - getDay(simple)
    ELSE getDate(simple) + 8 - getDay(simple)

\* The branch of getISOWeekDates: the day of the month handed to setDate.
WeekStartDate(simple) ==
    IF getDay(simple) <= 4
    THEN getDate(simple) - getDay(simple) + 1
    ELSE getDate(simple) + 8 - getDay(simple)

\* The anchor: new Date(year, 0, 1 + (week - 1) * 7).
WeekAnchor(year, week) == NewDate(year, 0, 1 + (week - 1) * 7)

getISOWeekDates(year, week) ==
    LET simple == WeekAnchor(year, week)
        ISOweekStart == setDate(simple, WeekStartDate(simple))
        ISOweekEnd == setDate(ISOweekStart, getDate(ISOweekStart) + 6)
    IN [start |-> ISOweekStart, end |-> ISOweekEnd]

\* CustomXAxisTick in the weekly view: a label the pattern accepts becomes
\* the span of its week, any other label is passed through verbatim.
CustomXAxisTick(l) ==
    IF WeekMatch(l)
    THEN LET parts == SplitW(l)
             span == getISOWeekDates(ParseInt(parts[1]), ParseInt(parts[2]))
         IN [kind |-> "span", start |-> span.start, end |-> span.end]
    ELSE [kind |-> "raw", start |-> 0, end |-> 0]

\* ---- the labels the weekly view is exercised with ----
YearSpan == 28
Years == {24, 1900, 2000, 9999} \cup (2019 .. (2019 + YearSpan))

YearStr(y) ==
    <<DigitChars[((y \div 1000) % 10) + 1], DigitChars[((y \div 100) % 10) + 1],
      DigitChars[((y \div 10) % 10) + 1], DigitChars[(y % 10) + 1]>>

\* one or two digits (a week), or three (which the pattern rejects)
WeekStrs ==
    {<<a>> : a \in Digits} \cup {<<a, b>> : a \in Digits, b \in Digits}
        \cup {<<"1", "0", a>> : a \in {"0", "5"}}

Labels ==
    {YearStr(y) \o <<"-", "W">> \o w : y \in Years, w \in WeekStrs}
        \cup {YearStr(y) \o <<"-">> \o w : y \in Years, w \in {<<"0", "1">>, <<"1", "2">>}}

NoTick == [kind |-> "none", start |-> 0, end |-> 0]

WeekIdle == label = <<>> /\ tick = NoTick

WeekInit == label \in Labels /\ tick = NoTick

\* The chart draws the tick of the current label.
RenderTick ==
    /\ tick.kind = "none"
    /\ tick' = CustomXAxisTick(label)
    /\ UNCHANGED label

(***************************************************************************)
(* MacroChart.jsx: the chart's data conversion and the tooltip.            *)
(* A macro field of a bucket is a JavaScript value: a number of grams,     *)
(* held as a whole number of 1/32 g (every such value, times 4 or 9, is    *)
(* exact in binary floating point), a string, or undefined (missing).      *)
(***************************************************************************)
GramUnit == 32
MinGram == 2
MaxGram == 6

Num(k) == [type |-> "number", n |-> k]
MacroValues ==
    {Num(k) : k \in (0 - MinGram) .. MaxGram}
        \cup {[type |-> "string", n |-> MaxGram], [type |-> "undefined", n |-> 0]}

Buckets == [protein : MacroValues, carbs : MacroValues, fat : MacroValues]

\* A second bucket, so that a chart can hold more than one:
\* 50 g protein, 200 g carbs, 70 g fat.
ExampleBucket ==
    [protein |-> Num(50 * GramUnit), carbs |-> Num(200 * GramUnit), fat |-> Num(70 * GramUnit)]

DataSets ==
    {<<>>} \cup {<<d>> : d \in Buckets} \cup {<<ExampleBucket, d>> : d \in Buckets}

\* typeof v === 'number' ? v : 0, in 1/32 g.
NumberOrZero(v) == IF v.type = "number" THEN v.n ELSE 0

\* Math.floor in place of Math.round.
MathRoundDown(num, den) == num \div den

\* Math.round(num / den) for den > 0: the nearest integer, a tie going up.
MathRound(num, den) == (2 * num + den) \div (2 * den)

\* Math.round(x) < 1 ? 0 : Math.round(x)
Segment(num, den) == IF MathRound(num, den) < 1 THEN 0 ELSE MathRound(num, den)

\* One element of convertedData (the callback of chartData.map).
ConvertDay(day) ==
    LET protein == NumberOrZero(day.protein)
        carbs == NumberOrZero(day.carbs)
        fat == NumberOrZero(day.fat)
        calories == (protein * 4) + (carbs * 4) + (fat * 9)
    IN [protein |-> Segment(protein * 4, GramUnit),
        carbs |-> Segment(carbs * 4, GramUnit),
        fat |-> Segment(fat * 9, GramUnit),
        total |-> MathRound(calories, GramUnit)]

convertedData(chartData) == [i \in 1 .. Len(chartData) |-> ConvertDay(chartData[i])]

\* What MacroChart renders: the loading message, the empty-state message
\* or the bar chart.
ChartView(props) ==
    IF props.loading THEN "loading"
    ELSE IF Len(props.data) = 0 THEN "empty"
    ELSE "chart"

\* The payload recharts hands the tooltip for a hovered bucket: one entry per
\* <Bar>, its value the bucket's field named by the bar's dataKey.
TooltipPayload(datum) ==
    <<[name |-> "Protein", value |-> datum.protein],
      [name |-> "Carbs", value |-> datum.carbs],
      [name |-> "Fat", value |-> datum.fat]>>

\* payload.reduce((sum, entry) => sum + (entry.value || 0), 0)
RECURSIVE SumValues(_)
SumValues(payload) ==
    IF Len(payload) = 0 THEN 0
    ELSE SumValues(SubSeq(payload, 1, Len(payload) - 1))
             + (IF payload[Len(payload)].value = 0 THEN 0 ELSE payload[Len(payload)].value)

\* The total taken from the bucket's own total field instead.
TooltipTotalFromField(datum) == datum.total

TooltipTotal(datum) == SumValues(TooltipPayload(datum))

NoTooltip == [active |-> FALSE, index |-> 0, values |-> <<>>, totalKcal |-> 0]

CustomTooltip(datum, i) ==
    [active |-> TRUE,
     index |-> i,
     values |-> [k \in 1 .. 3 |-> TooltipPayload(datum)[k].value],
     totalKcal |-> TooltipTotal(datum)]

ChartIdle == chartProps = [data |-> <<>>, loading |-> FALSE] /\ tooltip = NoTooltip

ChartInit ==
    /\ chartProps \in [data : DataSets, loading : BOOLEAN]
    /\ tooltip = NoTooltip

\* The pointer moves onto bucket i of a drawn chart.
Hover(i) ==
    /\ ChartView(chartProps) = "chart"
    /\ i \in 1 .. Len(chartProps.data)
    /\ tooltip' = CustomTooltip(convertedData(chartProps.data)[i], i)
    /\ UNCHANGED chartProps

\* The pointer leaves the chart.
Leave ==
    /\ tooltip.active
    /\ tooltip' = NoTooltip
    /\ UNCHANGED chartProps

\* The parent page finishes or starts loading (the data stays).
SetLoading ==
    /\ chartProps' = [chartProps EXCEPT !.loading = ~chartProps.loading]
    /\ tooltip' = NoTooltip

(***************************************************************************)
(* The specifications.                                                     *)
(***************************************************************************)
ShellIdle ==
    /\ trackedItems = <<>>
    /\ date = [y |-> 2026, m |-> 0, d |-> 5]
    /\ nutritionHistoryCache = "null"
    /\ nutritionHistoryVersion = 0
    /\ calls = <<>>
    /\ console = <<>>
    /\ fetchCount = 0
    /\ uuidCount = 0

\* The shell: tracker, date, cache and overlapping plate saves.
Init == ShellInit /\ PayloadIdle /\ RouteIdle /\ WeekIdle /\ ChartIdle

Next ==
    \/ \E item \in Catalog, quantity \in Quantities :
           addToTracker(item, quantity) /\ UNCHANGED <<routeVars, weekVars, chartVars, request>>
    \/ \E itemId \in 1 .. MaxAdds :
           removeFromTracker(itemId) /\ UNCHANGED <<routeVars, weekVars, chartVars, request>>
    \/ clearTracker /\ UNCHANGED <<routeVars, weekVars, chartVars, request>>
    \/ \E dt \in Dates : ChangeDate(dt) /\ UNCHANGED <<routeVars, weekVars, chartVars, request>>
    \/ \E blob \in {"null", "history"} :
           setCache(blob) /\ UNCHANGED <<routeVars, weekVars, chartVars, request>>
    \/ handleSavePlate /\ UNCHANGED <<routeVars, weekVars, chartVars, request>>
    \/ \E i \in 1 .. MaxSaves : ResolveOk(i) /\ UNCHANGED <<routeVars, weekVars, chartVars, request>>
    \/ \E i \in 1 .. MaxSaves : ResolveNotOk(i) /\ UNCHANGED <<routeVars, weekVars, chartVars, request>>
    \/ \E i \in 1 .. MaxSaves : RejectFetch(i) /\ UNCHANGED <<routeVars, weekVars, chartVars, request>>

Spec == Init /\ [][Next]_vars

\* The payload of a save.
InitPayload == PayloadInit /\ RouteIdle /\ WeekIdle /\ ChartIdle

NextPayload == handleSavePlateRequest /\ UNCHANGED <<routeVars, weekVars, chartVars>>

SpecPayload == InitPayload /\ [][NextPayload]_vars

\* The route table.
InitRoute == RouteInit /\ ShellIdle /\ PayloadIdle /\ WeekIdle /\ ChartIdle

NextRoute ==
    \/ \E p \in Paths : Visit(p) /\ UNCHANGED <<shellVars, weekVars, chartVars, request>>
    \/ \E u \in Users, l \in BOOLEAN :
           AuthChange(u, l) /\ UNCHANGED <<shellVars, weekVars, chartVars, request>>
    \/ FollowRedirect /\ UNCHANGED <<shellVars, weekVars, chartVars, request>>
    \/ LazyLoaded /\ UNCHANGED <<shellVars, weekVars, chartVars, request>>

SpecRoute == InitRoute /\ [][NextRoute]_vars

\* The weekly tick.
InitWeek == WeekInit /\ ShellIdle /\ PayloadIdle /\ RouteIdle /\ ChartIdle

NextWeek == RenderTick /\ UNCHANGED <<shellVars, routeVars, chartVars, request>>

SpecWeek == InitWeek /\ [][NextWeek]_vars

\* The chart and its tooltip.
InitChart == ChartInit /\ ShellIdle /\ PayloadIdle /\ RouteIdle /\ WeekIdle

NextChart ==
    \/ \E i \in 1 .. Len(chartProps.data) : Hover(i) /\ UNCHANGED <<shellVars, routeVars, weekVars, request>>
    \/ Leave /\ UNCHANGED <<shellVars, routeVars, weekVars, request>>
    \/ SetLoading /\ UNCHANGED <<shellVars, routeVars, weekVars, request>>

SpecChart == InitChart /\ [][NextChart]_vars

(***************************************************************************)
(* Claims about the weekly tick (checked under SpecWeek).                  *)
(***************************************************************************)
LabelYear == ParseInt(SplitW(label)[1])
LabelWeek == ParseInt(SplitW(label)[2])
LabelAnchor == WeekAnchor(LabelYear, LabelWeek)

\* C6: for every year and every one- or two-digit week number, the start
\* returned by getISOWeekDates is a Monday and the end is exactly 6 days
\* after the start, a Sunday.
C6_MondayToSunday ==
    tick.kind = "span" =>
        /\ getDay(tick.start) = 1
        /\ tick.end = tick.start + 6
        /\ getDay(tick.end) = 0

\* A week whose Monday and Sunday lie in different months, so that the
\* second setDate runs past the end of the month.
C6_Witness ==
    /\ tick.kind = "span"
    /\ MonthFromDay(tick.start) # MonthFromDay(tick.end)
    /\ LabelWeek > 9

\* C7 as stated: anchor weekday <= 4 gives the most recent Monday on or
\* before the anchor, any other weekday the next Monday after the anchor.
C7_AsStated ==
    tick.kind = "span" =>
        /\ getDay(tick.start) = 1
        /\ IF getDay(LabelAnchor) <= 4
           THEN tick.start <= LabelAnchor /\ LabelAnchor - tick.start < 7
           ELSE tick.start > LabelAnchor /\ tick.start - LabelAnchor <= 7

\* C7 amended: anchor weekday 1..4 (Monday..Thursday) gives the most recent
\* Monday on or before the anchor; weekday 0, 5 or 6 (Sunday, Friday,
\* Saturday) gives the next Monday strictly after the anchor.
C7_Amended ==
    tick.kind = "span" =>
        /\ getDay(tick.start) = 1
        /\ IF getDay(LabelAnchor) \in 1 .. 4
           THEN tick.start <= LabelAnchor /\ LabelAnchor - tick.start < 7
           ELSE tick.start > LabelAnchor /\ tick.start - LabelAnchor <= 7

\* A week whose anchor is a Sunday: its start is the day after the anchor.
C7_Witness ==
    /\ tick.kind = "span"
    /\ getDay(LabelAnchor) = 0
    /\ tick.start = LabelAnchor + 1

(***************************************************************************)
(* Claims about the shell (checked under Spec).                            *)
(***************************************************************************)
OkCalls == {i \in DOMAIN calls : calls[i].response = "ok"}
FailedCalls == {i \in DOMAIN calls : calls[i].response \in {"notok", "neterror"}}

\* C1: the nutrition-history version equals the number of plate saves that
\* have completed with an OK response, whatever else has happened and
\* however the saves overlap.
C1_VersionCountsOkSaves == nutritionHistoryVersion = Cardinality(OkCalls)

\* Two saves that were both started before either resolved (each closure saw
\* version 0) have both completed OK, with tracker operations in between.
C1_Witness ==
    /\ Len(calls) >= 2
    /\ calls[1].response = "ok" /\ calls[2].response = "ok"
    /\ calls[1].closure = 0 /\ calls[2].closure = 0
    /\ nutritionHistoryVersion = 2
    /\ uuidCount > 0

\* C2 as stated: a failed save (the fetch rejects, or the status is not OK)
\* is logged to the console, leaves the version alone, is not retried, and
\* handleSavePlate completes without raising an error to its caller.
C2_AsStated ==
    /\ \A i \in FailedCalls : calls[i].logged /\ calls[i].promise = "fulfilled"
    /\ Len(console) = Cardinality(FailedCalls)
    /\ nutritionHistoryVersion = Cardinality(OkCalls)
    /\ fetchCount = Len(calls)

\* C4: a plate save (its start, and its completion whatever the outcome)
\* leaves the tracked items, the selected date and the cache blob unchanged.
C4_SaveLeavesTrackerAlone ==
    [][(calls' # calls) => UNCHANGED <<trackedItems, date, nutritionHistoryCache>>]_vars

\* Saves of every outcome have completed while two items stay tracked.
C4_Witness ==
    /\ Len(trackedItems) = 2
    /\ nutritionHistoryCache = "history"
    /\ \E i \in DOMAIN calls : calls[i].response = "ok"
    /\ \E i \in DOMAIN calls : calls[i].response \in {"notok", "neterror"}

(***************************************************************************)
(* Claim about the payload (checked under SpecPayload).                    *)
(***************************************************************************)
\* C5: the payload holds exactly one entry per tracked item, in the same
\* order, and an entry carries custom_macros if and only if its food
\* identifier, written as a string, starts with "custom-".
C5_PayloadEntries ==
    request.sent =>
        /\ Len(request.items) = Len(trackedItems)
        /\ \A i \in 1 .. Len(trackedItems) :
               LET entry == request.items[i]
                   text == String(entry.food_id)
               IN /\ entry.food_id \in {trackedItems[i].id, trackedItems[i]._id}
                  /\ entry.has_custom_macros <=>
                         (Len(text) >= 7 /\ SubSeq(text, 1, 7) = <<"c", "u", "s", "t", "o", "m", "-">>)

\* A payload of two entries, the first not custom although its identifier
\* holds "custom-" further in, the second custom through its _id.
C5_Witness ==
    /\ request.sent
    /\ Len(request.items) = 2
    /\ ~request.items[1].has_custom_macros
    /\ Len(String(request.items[1].food_id)) > 7
    /\ request.items[2].has_custom_macros
    /\ trackedItems[2].id = Undefined

(***************************************************************************)
(* Claims about the routes (checked under SpecRoute).                      *)
(***************************************************************************)
\* C3: a guarded page shows its protected content only if auth is not
\* loading and the user is present and not a guest; with auth settled and no
\* user or a guest the guard redirects to /login; while auth is loading it
\* shows a placeholder, neither the content nor a redirect.
C3_GuardedContent ==
    /\ (Screen.kind \in {"page", "fallback"} /\ Screen.to \in ProtectedPages)
           => (~loading /\ user = "full" /\ path \in GuardedPaths)
    /\ path \in GuardedPaths =>
           /\ (~loading /\ user \in {"none", "guest"}) => Screen = Redirect("/login")
           /\ loading => Screen = Placeholder
           /\ (~loading /\ user = "full") => Screen.kind \in {"page", "fallback"}

\* A full user, auth settled, sees the history page once its import() has
\* resolved.
C3_Witness ==
    /\ path = "/history"
    /\ user = "full"
    /\ ~loading
    /\ Screen = Page("NutritionHistory")

\* C10: whatever location is asked for and whatever the auth state, at most
\* two redirects follow one another before a route renders without
\* redirecting again; no redirect cycle exists.
C10_RedirectsEnd ==
    /\ hops <= 2
    /\ hops = 2 => RouteElement(path, user, loading).kind # "redirect"

\* A guest sent from a guarded page to /login and on to /dashboard.
C10_Witness ==
    /\ user = "guest"
    /\ ~loading
    /\ hops = 2
    /\ path = "/dashboard"
    /\ Screen = Page("Dashboard")

(***************************************************************************)
(* Claims about the chart (checked under SpecChart).                       *)
(***************************************************************************)
\* The bucket under the pointer, as the parent page handed it over.
Hovered == chartProps.data[tooltip.index]

\* Grams (in 1/32 g) of a macro field as the claims read it.
RawGrams(v) == IF v.type = "number" THEN v.n ELSE 0

RawKcal32(day) == 4 * RawGrams(day.protein) + 4 * RawGrams(day.carbs) + 9 * RawGrams(day.fat)

\* k is x = num/den rounded to the nearest integer, a tie going up.
IsRounded(k, num, den) == 2 * den * k <= 2 * num + den /\ 2 * num + den < 2 * den * (k + 1)

C9_Field(v, shown, density) ==
    /\ shown \in Nat
    /\ (v.type = "number" /\ v.n >= 0) => IsRounded(shown, density * v.n, GramUnit)
    /\ v.type # "number" => shown = 0

C9_Segments ==
    ChartView(chartProps) = "chart" =>
        \A i \in 1 .. Len(chartProps.data) :
            LET day == chartProps.data[i]
                bar == convertedData(chartProps.data)[i]
            IN /\ C9_Field(day.protein, bar.protein, 4)
               /\ C9_Field(day.carbs, bar.carbs, 4)
               /\ C9_Field(day.fat, bar.fat, 9)

\* A drawn bucket with a tie (0.125 g protein = 0.5 kcal, shown as 1), a
\* string in place of a number, and a fat value below half a kcal.
C9_Witness ==
    /\ ChartView(chartProps) = "chart"
    /\ Len(chartProps.data) = 1
    /\ chartProps.data[1].protein = Num(4)
    /\ chartProps.data[1].carbs.type = "string"
    /\ chartProps.data[1].fat = Num(1)
    /\ convertedData(chartProps.data)[1].protein = 1
    /\ convertedData(chartProps.data)[1].carbs = 0
    /\ convertedData(chartProps.data)[1].fat = 0
    /\ tooltip.active

=============================================================================
